---- MODULE Spec2Model ----
(***************************************************************************)
(* Hardware checkout / check-in of the Hardware Lab Management System.     *)
(*                                                                         *)
(* The backend operations are the two MongoDB transactions of              *)
(* docs/database-schema.md ("Hardware Checkout", "Hardware Check-in"),     *)
(* run by any number of concurrent request handlers.  Each statement of a  *)
(* transaction is one step.  A session transaction reads from the snapshot *)
(* taken at its first operation, buffers its writes until                  *)
(* commitTransaction, and an updateOne on a document that another open     *)
(* transaction has written, or that was committed after the snapshot,      *)
(* throws a write conflict; the catch block aborts and rethrows.           *)
(***************************************************************************)
EXTENDS Integers, Sequences, FiniteSets, TLC

\* ---- bounds of the model ------------------------------------------------
MaxReq == 2        \* concurrent request handlers
MaxQty == 2        \* largest quantity a request asks for
Capacity == 2      \* total_capacity of every hardware set
MaxCalls == 3      \* requests served in one behaviour
MaxPageCalls == 2  \* requests one hardware page sends in one behaviour

Requests == 1..MaxReq
Quantities == 1..MaxQty
HwNames == {"hw1", "hw2"}          \* hw_name of the documents of hardwareDB
ProjectIds == {"p1", "p2"}         \* _id of the documents of projectsDB
NoSuchHw == "hw_none"              \* a hw_name with no document
NoSuchProject == "p_none"          \* a project_id with no document
HwInputs == HwNames \cup {NoSuchHw}
ProjectInputs == ProjectIds \cup {NoSuchProject}

\* hardwareDB, projectsDB: the stored (committed) documents of the two
\* collections.  req[r]: the open transaction of handler r and the statement
\* it is at.  response[r]: what handler r last answered.  calls: requests
\* served so far.
VARIABLES hardwareDB, projectsDB, req, response, calls

\* The state of the HardwareInventoryPage component (its useState hooks), and
\* sent: the handler serving the request the page is awaiting, 0 for none.
VARIABLES hardwareSets, loading, selectedHardware, selectedProject, quantity,
          isCheckoutMode, error, sent

\* history: the calls one client has made one after the other, with their
\* answers.  reading: the last answer to GET /get_hardware_availability.
VARIABLES history, reading

\* created: the last answer to POST /create_hardware_set.  members: the
\* members array of every projectsDB document.  caller: the session user of the
\* request each handler is serving.
VARIABLES created, members, caller

\* isAuthenticated, username: the state of the App component.  localStorage:
\* the item 'username' of the browser's storage.  location: the path the router
\* is at.  mounted: the effect of App on mount has run.  loginPage, portal: the
\* LoginPage and MainPortal components.
VARIABLES isAuthenticated, username, mounted, localStorage, location, loginPage,
          portal

serverVars == <<hardwareDB, projectsDB, req, response, calls>>
pageVars == <<hardwareSets, loading, selectedHardware, selectedProject, quantity,
              isCheckoutMode, error, sent>>
adminVars == <<created, members, caller>>
authVars == <<isAuthenticated, username, mounted, localStorage, location, loginPage,
              portal>>
vars == <<hardwareDB, projectsDB, req, response, calls,
          hardwareSets, loading, selectedHardware, selectedProject, quantity,
          isCheckoutMode, error, sent, history, reading,
          created, members, caller,
          isAuthenticated, username, mounted, localStorage, location, loginPage,
          portal>>

\* ---- documents ----------------------------------------------------------
\* A mutant of NewHardware: the set is created with every unit checked out.
NewHardwareAllOut(cap) ==
    [total_capacity |-> cap, available |-> 0, checked_out |-> cap]

\* hardwareDB document, created with nothing checked out.
NewHardware(cap) == [total_capacity |-> cap, available |-> cap, checked_out |-> 0]

\* findOne on an absent document returns null.
NullHardware == [total_capacity |-> 0, available |-> 0, checked_out |-> 0]

\* One element of projectsDB.hardware_checkouts.
CheckoutRecord(hw, qty) == [hw_name |-> hw, quantity |-> qty]

\* ---- the statements of the two transactions, as functions ---------------
\* A mutant of IncHardware: only `available` is moved.
IncHardwareAvailableOnly(hardware, qty) ==
    [hardware EXCEPT !.available = @ - qty]

\* $inc: { available: -qty, checked_out: qty }  (check-in passes -qty).
IncHardware(hardware, qty) ==
    [hardware EXCEPT !.available = @ - qty, !.checked_out = @ + qty]

\* A mutant of InsufficientAvailable: the guard is >= instead of >.
InsufficientOrEqual(hardware, requestedQty) ==
    hardware.available <= requestedQty

\* A mutant of InsufficientAvailable: compares against the capacity.
InsufficientAgainstCapacity(hardware, requestedQty) ==
    hardware.total_capacity < requestedQty

\* if (hardware.available < requestedQty) throw ...
InsufficientAvailable(hardware, requestedQty) ==
    hardware.available < requestedQty

\* $push: { hardware_checkouts: { hw_name, quantity, ... } }
PushCheckout(checkouts, hw, qty) == Append(checkouts, CheckoutRecord(hw, qty))

\* The query "hardware_checkouts.hw_name": hw matches the document.
HasCheckout(checkouts, hw) ==
    \E i \in 1..Len(checkouts) : checkouts[i].hw_name = hw

\* The positional operator $ is the first array element the query matches.
FirstMatch(checkouts, hw) ==
    CHOOSE i \in 1..Len(checkouts) :
        /\ checkouts[i].hw_name = hw
        /\ \A j \in 1..(i - 1) : checkouts[j].hw_name # hw

\* A mutant of DecCheckout: the first record is decremented, whatever its
\* hardware set.
DecFirstRecord(checkouts, hw, returnQty) ==
    [checkouts EXCEPT ![1].quantity = @ - returnQty]

\* $inc: { "hardware_checkouts.$.quantity": -returnQty }
DecCheckout(checkouts, hw, returnQty) ==
    [checkouts EXCEPT ![FirstMatch(checkouts, hw)].quantity = @ - returnQty]

RECURSIVE PullZero(_)
\* A mutant of PullNonPositive: only the records that are exactly 0 go.
PullZero(checkouts) ==
    IF checkouts = <<>> THEN <<>>
    ELSE IF Head(checkouts).quantity = 0 THEN PullZero(Tail(checkouts))
    ELSE <<Head(checkouts)>> \o PullZero(Tail(checkouts))

RECURSIVE PullNonPositive(_)
\* $pull: { hardware_checkouts: { quantity: { $lte: 0 } } }
PullNonPositive(checkouts) ==
    IF checkouts = <<>> THEN <<>>
    ELSE IF Head(checkouts).quantity <= 0 THEN PullNonPositive(Tail(checkouts))
    ELSE <<Head(checkouts)>> \o PullNonPositive(Tail(checkouts))

\* ---- request handlers ---------------------------------------------------
Idle ==
    [pc |-> "idle", op |-> "none", project_id |-> NoSuchProject,
     hw_name |-> NoSuchHw, quantity |-> 0,
     hwFound |-> FALSE, hardware |-> NullHardware,
     projFound |-> FALSE, hardware_checkouts |-> <<>>,
     wroteHw |-> FALSE, wroteProj |-> FALSE,
     staleHw |-> FALSE, staleProj |-> FALSE]

NoResponse == [success |-> FALSE, error |-> "pending", available |-> 0]
Failure(msg) == [success |-> FALSE, error |-> msg, available |-> 0]
Success(avail) == [success |-> TRUE, error |-> "", available |-> avail]

Insufficient == "Insufficient hardware available"
WriteConflict == "WriteConflict"
NullDeref == "TypeError"

\* startTransaction and the first operation: the snapshot of the two documents
\* the transaction names.
Begin(op, p, h, q) ==
    [Idle EXCEPT !.op = op, !.project_id = p, !.hw_name = h, !.quantity = q,
                 !.hwFound = h \in DOMAIN hardwareDB,
                 !.hardware = IF h \in DOMAIN hardwareDB THEN hardwareDB[h]
                              ELSE NullHardware,
                 !.projFound = p \in ProjectIds,
                 !.hardware_checkouts = IF p \in ProjectIds THEN projectsDB[p] ELSE <<>>]

\* updateOne on the hardware document throws a write conflict.
HwConflict(r, h) ==
    \/ req[r].staleHw
    \/ \E o \in Requests \ {r} :
          /\ req[o].pc # "idle"
          /\ req[o].wroteHw
          /\ req[o].hw_name = h

\* updateOne on the project document throws a write conflict.
ProjConflict(r, p) ==
    \/ req[r].staleProj
    \/ \E o \in Requests \ {r} :
          /\ req[o].pc # "idle"
          /\ req[o].wroteProj
          /\ req[o].project_id = p

\* A mutant of Abort: a call refused for insufficient availability is kept
\* waiting instead of being answered.
AbortOrWait(r, msg) ==
    /\ req' = [req EXCEPT ![r] = IF msg = Insufficient
                                   THEN [Idle EXCEPT !.pc = "waiting"]
                                   ELSE Idle]
    /\ response' = [response EXCEPT ![r] = IF msg = Insufficient THEN NoResponse
                                            ELSE Failure(msg)]
    /\ calls' = IF req[r].pc = "idle" THEN calls + 1 ELSE calls
    /\ UNCHANGED <<hardwareDB, projectsDB>>

\* catch (error) { abortTransaction(); throw error; }: the buffered writes are
\* dropped and the handler answers with the error.
Abort(r, msg) ==
    /\ req' = [req EXCEPT ![r] = Idle]
    /\ response' = [response EXCEPT ![r] = Failure(msg)]
    /\ calls' = IF req[r].pc = "idle" THEN calls + 1 ELSE calls
    /\ UNCHANGED <<hardwareDB, projectsDB>>

\* The handler goes on to its next statement.
Goto(r, t, pc) ==
    /\ req' = [req EXCEPT ![r] = [t EXCEPT !.pc = pc]]
    /\ response' = [response EXCEPT ![r] = NoResponse]
    /\ calls' = IF req[r].pc = "idle" THEN calls + 1 ELSE calls
    /\ UNCHANGED <<hardwareDB, projectsDB>>

\* A mutant of Commit: the counter update is stored, the project's record is
\* lost.
CommitHardwareOnly(r) ==
    LET t == req[r] IN
    /\ hardwareDB' = IF t.wroteHw
                        THEN [hardwareDB EXCEPT ![t.hw_name] = t.hardware]
                        ELSE hardwareDB
    /\ projectsDB' = projectsDB
    /\ req' = [req EXCEPT ![r] = Idle]
    /\ response' = [response EXCEPT ![r] = Success(t.hardware.available)]
    /\ UNCHANGED calls

\* commitTransaction: the buffered writes become the stored documents, and
\* every other open transaction whose snapshot holds one of them is stale.
Commit(r) ==
    LET t == req[r] IN
    /\ hardwareDB' = IF t.wroteHw
                        THEN [hardwareDB EXCEPT ![t.hw_name] = t.hardware]
                        ELSE hardwareDB
    /\ projectsDB' = IF t.wroteProj
                        THEN [projectsDB EXCEPT ![t.project_id] = t.hardware_checkouts]
                        ELSE projectsDB
    /\ req' = [o \in Requests |->
                 IF o = r THEN Idle
                 ELSE IF req[o].pc = "idle" THEN req[o]
                 ELSE [req[o] EXCEPT
                         !.staleHw = @ \/ (t.wroteHw /\ req[o].hw_name = t.hw_name),
                         !.staleProj = @ \/ (t.wroteProj
                                               /\ req[o].project_id = t.project_id)]]
    /\ response' = [response EXCEPT ![r] = Success(t.hardware.available)]
    /\ UNCHANGED calls

\* ---- POST /check_out ----------------------------------------------------
\* 1. Check hardware availability.
CheckOutFind(r, p, h, q) ==
    /\ req[r].pc = "idle"
    /\ LET t == Begin("check_out", p, h, q) IN
         IF ~t.hwFound THEN Abort(r, NullDeref)
         ELSE IF InsufficientAvailable(t.hardware, q) THEN Abort(r, Insufficient)
         ELSE Goto(r, t, "co_update_hw")

\* 2. Update hardware availability.
CheckOutUpdateHw(r) ==
    /\ req[r].pc = "co_update_hw"
    /\ LET t == req[r] IN
         IF HwConflict(r, t.hw_name) THEN Abort(r, WriteConflict)
         ELSE Goto(r, [t EXCEPT !.hardware = IncHardware(@, t.quantity),
                                !.wroteHw = TRUE], "co_push")

\* 3. Add checkout record to project.  An _id that matches no document
\* updates nothing and is no error.
CheckOutPush(r) ==
    /\ req[r].pc = "co_push"
    /\ LET t == req[r] IN
         IF ~t.projFound THEN Goto(r, t, "co_commit")
         ELSE IF ProjConflict(r, t.project_id) THEN Abort(r, WriteConflict)
         ELSE Goto(r, [t EXCEPT
                         !.hardware_checkouts = PushCheckout(@, t.hw_name, t.quantity),
                         !.wroteProj = TRUE], "co_commit")

CheckOutCommit(r) ==
    /\ req[r].pc = "co_commit"
    /\ Commit(r)

\* ---- POST /check_in -----------------------------------------------------
\* 1. Update hardware availability.  This is the transaction's first
\* operation, so its snapshot is the stored state.
CheckInUpdateHw(r, p, h, q) ==
    /\ req[r].pc = "idle"
    /\ LET t == Begin("check_in", p, h, q) IN
         IF ~t.hwFound THEN Goto(r, t, "ci_update_rec")
         ELSE IF HwConflict(r, h) THEN Abort(r, WriteConflict)
         ELSE Goto(r, [t EXCEPT !.hardware = IncHardware(@, -q),
                                !.wroteHw = TRUE], "ci_update_rec")

\* 2. Update project checkout record.
CheckInUpdateRecord(r) ==
    /\ req[r].pc = "ci_update_rec"
    /\ LET t == req[r] IN
         IF ~(t.projFound /\ HasCheckout(t.hardware_checkouts, t.hw_name))
         THEN Goto(r, t, "ci_pull")
         ELSE IF ProjConflict(r, t.project_id) THEN Abort(r, WriteConflict)
         ELSE Goto(r, [t EXCEPT
                         !.hardware_checkouts = DecCheckout(@, t.hw_name, t.quantity),
                         !.wroteProj = TRUE], "ci_pull")

\* 3. Remove checkout record if quantity is 0.  A $pull that removes nothing
\* writes nothing.
CheckInPull(r) ==
    /\ req[r].pc = "ci_pull"
    /\ LET t == req[r] IN
         IF ~t.projFound \/ PullNonPositive(t.hardware_checkouts) = t.hardware_checkouts
         THEN Goto(r, t, "ci_commit")
         ELSE IF ProjConflict(r, t.project_id) THEN Abort(r, WriteConflict)
         ELSE Goto(r, [t EXCEPT !.hardware_checkouts = PullNonPositive(@),
                                !.wroteProj = TRUE], "ci_commit")

CheckInCommit(r) ==
    /\ req[r].pc = "ci_commit"
    /\ Commit(r)

\* ---- the client: hardwareService.js -------------------------------------
\* Texts are sequences of one-character strings.
Digits == <<"0", "1", "2", "3", "4", "5", "6", "7", "8", "9">>
IsDigit(c) == \E i \in 1..Len(Digits) : Digits[i] = c
DigitValue(c) == (CHOOSE i \in 1..Len(Digits) : Digits[i] = c) - 1
NaN == [nan |-> TRUE, value |-> 0]
Number(n) == [nan |-> FALSE, value |-> n]

RECURSIVE TrimStart(_)
\* parseInt skips leading white space.
TrimStart(s) ==
    IF s # <<>> /\ Head(s) = " " THEN TrimStart(Tail(s)) ELSE s

RECURSIVE DigitPrefix(_)
\* The longest prefix of s made of digits.
DigitPrefix(s) ==
    IF s # <<>> /\ IsDigit(Head(s)) THEN <<Head(s)>> \o DigitPrefix(Tail(s))
    ELSE <<>>

RECURSIVE DecimalValue(_)
\* The value of a sequence of digits read in base ten.
DecimalValue(ds) ==
    IF ds = <<>> THEN 0
    ELSE 10 * DecimalValue(SubSeq(ds, 1, Len(ds) - 1)) + DigitValue(ds[Len(ds)])

\* parseInt(string) with no radix, for texts that are not hexadecimal
\* literals: white space, a sign, then the digits up to the first character
\* that is not a digit; NaN when there is no digit there.
ParseInt(s) ==
    LET t == TrimStart(s)
        negative == t # <<>> /\ Head(t) = "-"
        body == IF t # <<>> /\ Head(t) \in {"-", "+"} THEN Tail(t) ELSE t
        ds == DigitPrefix(body)
    IN IF ds = <<>> THEN NaN
       ELSE Number((IF negative THEN -1 ELSE 1) * DecimalValue(ds))

RECURSIVE NaturalToString(_)
NaturalToString(n) ==
    IF n < 10 THEN <<Digits[n + 1]>>
    ELSE NaturalToString(n \div 10) \o <<Digits[(n % 10) + 1]>>

\* ToString of an integer, which parseInt applies to a numeric argument.
NumberToString(n) ==
    IF n < 0 THEN <<"-">> \o NaturalToString(-n) ELSE NaturalToString(n)

\* checkOutHardware: api.post('/check_out', { ..., quantity: parseInt(quantity) })
\* reaches handler r, which runs the first statement of the transaction.
CheckOutHardware(r, projectId, hwName, quantityText) ==
    /\ ~ParseInt(quantityText).nan
    /\ CheckOutFind(r, projectId, hwName, ParseInt(quantityText).value)

\* checkInHardware: api.post('/check_in', { ..., quantity: parseInt(quantity) })
CheckInHardware(r, projectId, hwName, quantityText) ==
    /\ ~ParseInt(quantityText).nan
    /\ CheckInUpdateHw(r, projectId, hwName, ParseInt(quantityText).value)

FailedToConnect == "Failed to connect to server"

\* ---- the client: HardwareInventoryPage.js --------------------------------
\* What the user can type into the quantity field.
QuantityTexts ==
    {<<>>, <<"0">>, <<"1">>, <<"2">>, <<"1", "0">>, <<"-", "1">>,
     <<"1", ".", "5">>, <<"a">>}

\* selectedHardware = null.
NullHardwareSet ==
    [hw_name |-> "null", total_capacity |-> 0, available |-> 0, checked_out |-> 0]

\* One element of the hardware_sets array of GET /get_hardware_sets.
HardwareSet(h) ==
    [hw_name |-> h, total_capacity |-> hardwareDB[h].total_capacity,
     available |-> hardwareDB[h].available,
     checked_out |-> hardwareDB[h].checked_out]

SelectProjectAndQuantity == "Please select a project and enter quantity"
EnterValidQuantity == "Please enter a valid quantity"

\* useState(...) of the component; the effect on mount calls loadData.
PageInit ==
    /\ hardwareSets = {}
    /\ loading = TRUE
    /\ selectedHardware = NullHardwareSet
    /\ selectedProject = ""
    /\ quantity = <<>>
    /\ isCheckoutMode = TRUE
    /\ error = ""
    /\ sent = 0

\* loadData: the hardware list is replaced by the stored documents.
LoadData ==
    /\ loading
    /\ hardwareSets' = {HardwareSet(h) : h \in HwNames}
    /\ loading' = FALSE
    /\ UNCHANGED <<selectedHardware, selectedProject, quantity, isCheckoutMode,
                   error, sent>>
    /\ UNCHANGED serverVars

\* openForm(hardware, isCheckout) for a row of the list, which is on the
\* screen when the page is not loading.
OpenForm(hardware, isCheckout) ==
    /\ ~loading
    /\ hardware \in hardwareSets
    /\ selectedHardware' = hardware
    /\ isCheckoutMode' = isCheckout
    /\ error' = ""
    /\ quantity' = <<>>
    /\ selectedProject' = ""
    /\ UNCHANGED <<hardwareSets, loading, sent>>
    /\ UNCHANGED serverVars

\* onChange of the project select: an option of the user's projects, or none.
SetSelectedProject(p) ==
    /\ selectedHardware # NullHardwareSet
    /\ selectedProject' = p
    /\ UNCHANGED <<hardwareSets, loading, selectedHardware, quantity,
                   isCheckoutMode, error, sent>>
    /\ UNCHANGED serverVars

\* onChange of the quantity input.
SetQuantity(text) ==
    /\ selectedHardware # NullHardwareSet
    /\ quantity' = text
    /\ UNCHANGED <<hardwareSets, loading, selectedHardware, selectedProject,
                   isCheckoutMode, error, sent>>
    /\ UNCHANGED serverVars

\* setError(msg); return;
Reject(msg) ==
    /\ error' = msg
    /\ UNCHANGED <<hardwareSets, loading, selectedHardware, selectedProject,
                   quantity, isCheckoutMode, sent>>
    /\ UNCHANGED serverVars

\* A mutant of HandleCheckout: the quantity is not compared with the
\* available value of the selected hardware set.
HandleCheckoutAnyQuantity ==
    /\ selectedHardware # NullHardwareSet
    /\ isCheckoutMode
    /\ sent = 0
    /\ IF selectedProject = "" \/ quantity = <<>>
       THEN Reject(SelectProjectAndQuantity)
       ELSE LET qty == ParseInt(quantity) IN
            IF qty.nan \/ qty.value <= 0 THEN Reject(EnterValidQuantity)
            ELSE \E r \in Requests :
                    /\ CheckOutHardware(r, selectedProject, selectedHardware.hw_name,
                                        NumberToString(qty.value))
                    /\ sent' = r
                    /\ error' = ""
                    /\ UNCHANGED <<hardwareSets, loading, selectedHardware,
                                   selectedProject, quantity, isCheckoutMode>>

\* handleCheckout, up to its await.
HandleCheckout ==
    /\ selectedHardware # NullHardwareSet
    /\ isCheckoutMode
    /\ sent = 0
    /\ IF selectedProject = "" \/ quantity = <<>>
       THEN Reject(SelectProjectAndQuantity)
       ELSE LET qty == ParseInt(quantity) IN
            IF qty.nan \/ qty.value <= 0 THEN Reject(EnterValidQuantity)
            ELSE IF qty.value > selectedHardware.available THEN Reject(Insufficient)
            ELSE \E r \in Requests :
                    /\ CheckOutHardware(r, selectedProject, selectedHardware.hw_name,
                                        NumberToString(qty.value))
                    /\ sent' = r
                    /\ error' = ""
                    /\ UNCHANGED <<hardwareSets, loading, selectedHardware,
                                   selectedProject, quantity, isCheckoutMode>>

\* handleCheckin, up to its await.
HandleCheckin ==
    /\ selectedHardware # NullHardwareSet
    /\ ~isCheckoutMode
    /\ sent = 0
    /\ IF selectedProject = "" \/ quantity = <<>>
       THEN Reject(SelectProjectAndQuantity)
       ELSE LET qty == ParseInt(quantity) IN
            IF qty.nan \/ qty.value <= 0 THEN Reject(EnterValidQuantity)
            ELSE \E r \in Requests :
                    /\ CheckInHardware(r, selectedProject, selectedHardware.hw_name,
                                       NumberToString(qty.value))
                    /\ sent' = r
                    /\ error' = ""
                    /\ UNCHANGED <<hardwareSets, loading, selectedHardware,
                                   selectedProject, quantity, isCheckoutMode>>

\* A mutant of HandleResponse: the form is cleared and the list reloaded
\* whatever the result.
HandleResponseAlwaysClears ==
    /\ sent # 0
    /\ req[sent].pc = "idle"
    /\ selectedHardware' = NullHardwareSet
    /\ quantity' = <<>>
    /\ selectedProject' = ""
    /\ loading' = TRUE
    /\ error' = IF response[sent].success THEN error ELSE response[sent].error
    /\ sent' = 0
    /\ UNCHANGED <<hardwareSets, isCheckoutMode>>
    /\ UNCHANGED serverVars

\* The awaited call resolves with the server's body: on success the form is
\* cleared and loadData is called, otherwise response.error is shown.
HandleResponse ==
    /\ sent # 0
    /\ req[sent].pc = "idle"
    /\ IF response[sent].success
       THEN /\ selectedHardware' = NullHardwareSet
            /\ quantity' = <<>>
            /\ selectedProject' = ""
            /\ loading' = TRUE
            /\ UNCHANGED error
       ELSE /\ error' = response[sent].error
            /\ UNCHANGED <<selectedHardware, quantity, selectedProject, loading>>
    /\ sent' = 0
    /\ UNCHANGED <<hardwareSets, isCheckoutMode>>
    /\ UNCHANGED serverVars

\* The axios timeout (10 s) ends the wait before the server has answered: the
\* service resolves to { success: false, error: 'Failed to connect to server' }
\* while the handler goes on with its transaction.
RequestTimeout ==
    /\ sent # 0
    /\ req[sent].pc # "idle"
    /\ error' = FailedToConnect
    /\ sent' = 0
    /\ UNCHANGED <<hardwareSets, loading, selectedHardware, selectedProject,
                   quantity, isCheckoutMode>>
    /\ UNCHANGED serverVars

\* No answer to GET /get_hardware_availability yet.
NoReading ==
    [success |-> FALSE, hw_name |-> "none", total_capacity |-> 0,
     available |-> 0, checked_out |-> 0]

clientVars == <<pageVars, history, reading>>
otherVars == <<clientVars, adminVars, authVars>>
notPageVars == <<history, reading, adminVars, authVars>>

ClientInit ==
    /\ PageInit
    /\ history = <<>>
    /\ reading = NoReading

\* ---- POST /create_hardware_set ---------------------------------------------
Usernames == {"u1", "u2"}

\* No answer to POST /create_hardware_set yet.
NoCreation ==
    [success |-> FALSE, error |-> "none", hw_name |-> "none",
     total_capacity |-> 0, available |-> 0]

\* Response (201).
CreatedBody(h, hardware) ==
    [success |-> TRUE, error |-> "", hw_name |-> h,
     total_capacity |-> hardware.total_capacity, available |-> hardware.available]

\* 400 Bad Request - Invalid input or hardware already exists.
AlreadyExists == "Hardware set already exists"
AlreadyExistsBody(h) == [NoCreation EXCEPT !.error = AlreadyExists, !.hw_name = h]

\* The insert of a hardwareDB document under the unique index on hw_name: a
\* second document of the same hw_name is refused and nothing is stored.
CreateHardwareSet(h, cap) ==
    /\ IF h \in DOMAIN hardwareDB
       THEN /\ created' = AlreadyExistsBody(h)
            /\ UNCHANGED hardwareDB
       ELSE /\ hardwareDB' = [x \in DOMAIN hardwareDB \cup {h} |->
                                 IF x = h THEN NewHardware(cap) ELSE hardwareDB[x]]
            /\ created' = CreatedBody(h, NewHardware(cap))
    /\ UNCHANGED <<projectsDB, req, response, calls, members, caller>>
    /\ UNCHANGED <<clientVars, authVars>>

\* ---- project membership -----------------------------------------------------
\* The project a user created: the owner is always in members.
ProjectOwner == [p \in ProjectIds |-> IF p = "p1" THEN "u1" ELSE "u2"]

Forbidden == "Not a project member"

\* A mutant of IsMember: membership of any project will do.
IsMemberOfAny(u, p) == \E other \in ProjectIds : u \in members[other]

\* The membership query { _id: p, members: u } on projectsDB.
IsMember(u, p) == p \in ProjectIds /\ u \in members[p]

\* POST /join_project by user u: u is added to members.  The write lies
\* outside any transaction: it waits while an open transaction holds a write
\* on the project document, and once stored it makes every open transaction
\* that reads the project stale.
JoinProject(u, p) ==
    /\ ~IsMember(u, p)
    /\ \A o \in Requests :
          ~(req[o].pc # "idle" /\ req[o].wroteProj /\ req[o].project_id = p)
    /\ members' = [members EXCEPT ![p] = @ \cup {u}]
    /\ req' = [o \in Requests |->
                 IF req[o].pc # "idle" /\ req[o].project_id = p
                 THEN [req[o] EXCEPT !.staleProj = TRUE]
                 ELSE req[o]]
    /\ UNCHANGED <<hardwareDB, projectsDB, response, calls, created, caller>>
    /\ UNCHANGED <<clientVars, authVars>>

\* The handler of POST /check_out for the session user u: a user who is not
\* a member of the project is answered 403, a member's request runs the
\* transaction.
CheckOutRoute(r, u, p, h, q) ==
    /\ req[r].pc = "idle"
    /\ caller' = [caller EXCEPT ![r] = u]
    /\ IF IsMember(u, p) THEN CheckOutFind(r, p, h, q) ELSE Abort(r, Forbidden)
    /\ UNCHANGED <<created, members>>
    /\ UNCHANGED <<clientVars, authVars>>

\* The handler of POST /check_in for the session user u.
CheckInRoute(r, u, p, h, q) ==
    /\ req[r].pc = "idle"
    /\ caller' = [caller EXCEPT ![r] = u]
    /\ IF IsMember(u, p) THEN CheckInUpdateHw(r, p, h, q) ELSE Abort(r, Forbidden)
    /\ UNCHANGED <<created, members>>
    /\ UNCHANGED <<clientVars, authVars>>

AdminInit ==
    /\ created = NoCreation
    /\ members = [p \in ProjectIds |-> {ProjectOwner[p]}]
    /\ caller = [r \in Requests |-> ""]

\* ---- the client: authService.js -----------------------------------------------
\* What login, register and logout resolve to: the server's body of a 2xx
\* answer, the body of an error answer (with or without an error text), or the
\* connection failure.  They catch every error of the call and never reject.
ServiceResults(msg) ==
    {[success |-> TRUE, error |-> ""],
     [success |-> FALSE, error |-> msg],
     [success |-> FALSE, error |-> ""],
     [success |-> FALSE, error |-> FailedToConnect]}

InvalidCredentials == "Invalid credentials"
UsernameExists == "Username already exists"
LoginResults == ServiceResults(InvalidCredentials)
RegisterResults == ServiceResults(UsernameExists)
LogoutResults == ServiceResults("Not authenticated")

\* ---- the client: App.js ---------------------------------------------------------
\* localStorage.getItem('username') with no item stored.
NoItem == "null"

Paths == {"/", "/login", "/portal", "/projects", "/hardware"}
ProtectedPages ==
    [p \in {"/portal", "/projects", "/hardware"} |->
        IF p = "/portal" THEN "MainPortal"
        ELSE IF p = "/projects" THEN "ProjectPage"
        ELSE "HardwareInventoryPage"]

Page(component) == [component |-> component, to |-> ""]
NavigateTo(path) == [component |-> "Navigate", to |-> path]

\* The element of the route that matches path.
Element(path) ==
    IF path = "/login"
    THEN (IF isAuthenticated THEN NavigateTo("/portal") ELSE Page("LoginPage"))
    ELSE IF path \in DOMAIN ProtectedPages
    THEN (IF isAuthenticated THEN Page(ProtectedPages[path]) ELSE NavigateTo("/login"))
    ELSE (IF isAuthenticated THEN NavigateTo("/portal") ELSE NavigateTo("/login"))

\* The component on the screen.
Rendered == Element(location).component

\* A mutant of AppHandleLogin: the username is not stored.
AppHandleLoginNoStore(user) ==
    /\ isAuthenticated' = TRUE
    /\ username' = user
    /\ localStorage' = localStorage

\* handleLogin(user) of App.
AppHandleLogin(user) ==
    /\ isAuthenticated' = TRUE
    /\ username' = user
    /\ localStorage' = user

\* handleLogout of App.
AppHandleLogout ==
    /\ isAuthenticated' = FALSE
    /\ username' = ""
    /\ localStorage' = NoItem

\* ---- the client: LoginPage.js ----------------------------------------------------
MinPasswordLength == 8
ShortPassword == [i \in 1..(MinPasswordLength - 1) |-> "a"]
LongPassword == [i \in 1..MinPasswordLength |-> "a"]
PasswordTexts == {<<>>, ShortPassword, LongPassword}

FillInAllFields == "Please fill in all fields"
PasswordsDoNotMatch == "Passwords do not match"
PasswordTooShort == "Password must be at least 8 characters"
LoginFailed == "Login failed"
RegistrationFailed == "Registration failed"

\* useState(...) of LoginPage; pc is where its handleSubmit is waiting.
LoginPageInit ==
    [isLoginMode |-> TRUE, username |-> "", password |-> <<>>,
     confirmPassword |-> <<>>, error |-> "", loading |-> FALSE, pc |-> "idle"]

\* MainPortal keeps no state: clicks counts the calls of its handleLogout,
\* awaiting those that wait for logout(), onLogoutCalls their calls of onLogout.
PortalInit == [clicks |-> 0, awaiting |-> 0, onLogoutCalls |-> 0]

\* Everything outside App, LoginPage and MainPortal.
nonAuthVars == <<serverVars, clientVars, adminVars>>

\* The router goes to path: LoginPage is mounted anew whenever it comes onto
\* the screen.
RouteTo(path) ==
    /\ location' = path
    /\ loginPage' = IF path # location /\ "/login" \in {path, location}
                    THEN [LoginPageInit EXCEPT !.pc = loginPage.pc]
                    ELSE loginPage

\* The effect of App on mount.
Mount ==
    /\ ~mounted
    /\ mounted' = TRUE
    /\ IF localStorage # NoItem /\ localStorage # ""
       THEN /\ isAuthenticated' = TRUE
            /\ username' = localStorage
       ELSE UNCHANGED <<isAuthenticated, username>>
    /\ UNCHANGED <<localStorage, location, loginPage, portal>>
    /\ UNCHANGED nonAuthVars

\* <Navigate to=... /> is rendered.
Redirect ==
    /\ Rendered = "Navigate"
    /\ RouteTo(Element(location).to)
    /\ UNCHANGED <<isAuthenticated, username, mounted, localStorage, portal>>
    /\ UNCHANGED nonAuthVars

\* navigate(path) from a page of the logged-in user (goToProjects, goToHardware
\* and the links back).
GoTo(path) ==
    /\ mounted
    /\ Rendered \in {ProtectedPages[p] : p \in DOMAIN ProtectedPages}
    /\ RouteTo(path)
    /\ UNCHANGED <<isAuthenticated, username, mounted, localStorage, portal>>
    /\ UNCHANGED nonAuthVars

\* The browser loads the application again at path, while no handler is
\* waiting: every component starts from its initial state.
Reload(path) ==
    /\ mounted
    /\ loginPage.pc = "idle"
    /\ portal.awaiting = 0
    /\ isAuthenticated' = FALSE
    /\ username' = ""
    /\ mounted' = FALSE
    /\ location' = path
    /\ loginPage' = LoginPageInit
    /\ UNCHANGED <<localStorage, portal>>
    /\ UNCHANGED nonAuthVars

\* The form of LoginPage can be used.
FormEnabled == mounted /\ Rendered = "LoginPage" /\ ~loginPage.loading

LoginPageStep(next) ==
    /\ loginPage' = next
    /\ UNCHANGED <<isAuthenticated, username, mounted, localStorage, location, portal>>
    /\ UNCHANGED nonAuthVars

SetUsername(u) ==
    /\ FormEnabled
    /\ LoginPageStep([loginPage EXCEPT !.username = u])

SetPassword(text) ==
    /\ FormEnabled
    /\ LoginPageStep([loginPage EXCEPT !.password = text])

SetConfirmPassword(text) ==
    /\ FormEnabled
    /\ ~loginPage.isLoginMode
    /\ LoginPageStep([loginPage EXCEPT !.confirmPassword = text])

\* toggleMode.
ToggleMode ==
    /\ FormEnabled
    /\ LoginPageStep([loginPage EXCEPT !.isLoginMode = ~@, !.error = "",
                                       !.confirmPassword = <<>>])

\* handleSubmit, up to its first await.
HandleSubmit ==
    /\ FormEnabled
    /\ LET f == loginPage
           failed(msg) == [f EXCEPT !.error = msg, !.loading = FALSE]
       IN LoginPageStep(
            IF f.username = "" \/ f.password = <<>> THEN failed(FillInAllFields)
            ELSE IF ~f.isLoginMode /\ f.password # f.confirmPassword
            THEN failed(PasswordsDoNotMatch)
            ELSE IF ~f.isLoginMode /\ Len(f.password) < MinPasswordLength
            THEN failed(PasswordTooShort)
            ELSE [f EXCEPT !.error = "", !.loading = TRUE,
                           !.pc = IF f.isLoginMode THEN "login" ELSE "register"])

\* A mutant of LoginResolves: onLogin is called whatever login answered.
LoginResolvesAnyAnswer(result) ==
    /\ loginPage.pc \in {"login", "autoLogin"}
    /\ AppHandleLogin(loginPage.username)
    /\ loginPage' = [loginPage EXCEPT !.loading = FALSE, !.pc = "idle"]
    /\ UNCHANGED <<mounted, location, portal>>
    /\ UNCHANGED nonAuthVars

\* await login(username, password) resolves, in login mode or as the
\* auto-login after a registration; then the finally block.
LoginResolves(result) ==
    /\ loginPage.pc \in {"login", "autoLogin"}
    /\ IF result.success
       THEN /\ AppHandleLogin(loginPage.username)
            /\ loginPage' = [loginPage EXCEPT !.loading = FALSE, !.pc = "idle"]
       ELSE /\ loginPage' =
                 [loginPage EXCEPT
                    !.error = IF loginPage.pc = "autoLogin" THEN @
                              ELSE IF result.error # "" THEN result.error
                              ELSE LoginFailed,
                    !.loading = FALSE, !.pc = "idle"]
            /\ UNCHANGED <<isAuthenticated, username, localStorage>>
    /\ UNCHANGED <<mounted, location, portal>>
    /\ UNCHANGED nonAuthVars

\* await register(username, password) resolves.
RegisterResolves(result) ==
    /\ loginPage.pc = "register"
    /\ LoginPageStep(
         IF result.success THEN [loginPage EXCEPT !.pc = "autoLogin"]
         ELSE [loginPage EXCEPT
                 !.error = IF result.error # "" THEN result.error
                           ELSE RegistrationFailed,
                 !.loading = FALSE, !.pc = "idle"])

\* ---- the client: MainPortal.js ----------------------------------------------------
MaxLogouts == 2    \* clicks on Logout in one behaviour

\* handleLogout of MainPortal, up to its await.
PortalHandleLogout ==
    /\ mounted
    /\ Rendered = "MainPortal"
    /\ portal' = [portal EXCEPT !.clicks = @ + 1, !.awaiting = @ + 1]
    /\ UNCHANGED <<isAuthenticated, username, mounted, localStorage, location,
                   loginPage>>
    /\ UNCHANGED nonAuthVars

\* A mutant of LogoutResolves: the client session is ended only when the
\* backend has confirmed the logout.
LogoutResolvesIfConfirmed(result) ==
    /\ portal.awaiting > 0
    /\ IF result.success
       THEN /\ AppHandleLogout
            /\ RouteTo("/login")
            /\ portal' = [portal EXCEPT !.awaiting = @ - 1, !.onLogoutCalls = @ + 1]
       ELSE /\ portal' = [portal EXCEPT !.awaiting = @ - 1]
            /\ UNCHANGED <<isAuthenticated, username, localStorage, location,
                           loginPage>>
    /\ UNCHANGED mounted
    /\ UNCHANGED nonAuthVars

\* await logout() resolves: onLogout(); navigate('/login').  logout() never
\* rejects, and the catch block of handleLogout does the same two calls.
LogoutResolves(result) ==
    /\ portal.awaiting > 0
    /\ AppHandleLogout
    /\ RouteTo("/login")
    /\ portal' = [portal EXCEPT !.awaiting = @ - 1, !.onLogoutCalls = @ + 1]
    /\ UNCHANGED mounted
    /\ UNCHANGED nonAuthVars

\* useState(...) of App, with nothing stored by an earlier visit.
AuthInit ==
    /\ isAuthenticated = FALSE
    /\ username = ""
    /\ mounted = FALSE
    /\ localStorage = NoItem
    /\ location = "/"
    /\ loginPage = LoginPageInit
    /\ portal = PortalInit

OtherInit == ClientInit /\ AdminInit /\ AuthInit

\* ---- the specification of the server ---------------------------------------
ServerInit ==
    /\ hardwareDB = [h \in HwNames |-> NewHardware(Capacity)]
    /\ projectsDB = [p \in ProjectIds |-> <<>>]
    /\ req = [r \in Requests |-> Idle]
    /\ response = [r \in Requests |-> NoResponse]
    /\ calls = 0

Init == ServerInit /\ OtherInit

\* Requests arrive from any client with any body; the handlers run their
\* transactions one statement at a time.
Next ==
    \/ \E r \in Requests, p \in ProjectInputs, h \in HwInputs, q \in Quantities :
          calls < MaxCalls /\ CheckOutFind(r, p, h, q) /\ UNCHANGED otherVars
    \/ \E r \in Requests : CheckOutUpdateHw(r) /\ UNCHANGED otherVars
    \/ \E r \in Requests : CheckOutPush(r) /\ UNCHANGED otherVars
    \/ \E r \in Requests : CheckOutCommit(r) /\ UNCHANGED otherVars
    \/ \E r \in Requests, p \in ProjectInputs, h \in HwInputs, q \in Quantities :
          calls < MaxCalls /\ CheckInUpdateHw(r, p, h, q) /\ UNCHANGED otherVars
    \/ \E r \in Requests : CheckInUpdateRecord(r) /\ UNCHANGED otherVars
    \/ \E r \in Requests : CheckInPull(r) /\ UNCHANGED otherVars
    \/ \E r \in Requests : CheckInCommit(r) /\ UNCHANGED otherVars

Spec == Init /\ [][Next]_vars

\* ---- a race for the last units of one hardware set -----------------------
\* Every handler serves one POST /check_out of one unit of hw1 for project
\* p1, starting from a stored state in which project p2 holds all but K of
\* the units of hw1, with K smaller than the number of handlers.
RaceHw == "hw1"
RaceProject == "p1"
RaceHolder == "p2"

RECURSIVE Held(_, _)
\* The units of hw that the records of one project add up to.
Held(checkouts, hw) ==
    IF checkouts = <<>> THEN 0
    ELSE (IF Head(checkouts).hw_name = hw THEN Head(checkouts).quantity ELSE 0)
         + Held(Tail(checkouts), hw)

\* The number of records of one project for hw.
NumRecords(checkouts, hw) ==
    Cardinality({i \in 1..Len(checkouts) : checkouts[i].hw_name = hw})

\* The ledgers a run of check-outs by RaceHolder leaves behind: each
\* check-out appended one record, and none took more than was available.
HolderLedgers ==
    {ledger \in UNION {[1..n -> {CheckoutRecord(h, q) : h \in HwNames, q \in Quantities}]
                         : n \in 0..MaxCalls} :
        \A h \in HwNames : Held(ledger, h) <= Capacity}

RaceInit ==
    /\ \E ledger \in HolderLedgers :
          /\ Capacity - Held(ledger, RaceHw) < MaxReq
          /\ projectsDB = [p \in ProjectIds |->
                              IF p = RaceHolder THEN ledger ELSE <<>>]
          /\ hardwareDB = [h \in HwNames |->
                              IncHardware(NewHardware(Capacity), Held(ledger, h))]
    /\ req = [r \in Requests |-> Idle]
    /\ response = [r \in Requests |-> NoResponse]
    /\ calls = 0
    /\ OtherInit

RaceCheckOut(r) ==
    /\ response[r] = NoResponse
    /\ CheckOutFind(r, RaceProject, RaceHw, 1)

RaceNext ==
    \/ \E r \in Requests : RaceCheckOut(r) /\ UNCHANGED otherVars
    \/ \E r \in Requests : CheckOutUpdateHw(r) /\ UNCHANGED otherVars
    \/ \E r \in Requests : CheckOutPush(r) /\ UNCHANGED otherVars
    \/ \E r \in Requests : CheckOutCommit(r) /\ UNCHANGED otherVars

RaceSpec == RaceInit /\ [][RaceNext]_vars

\* ---- one user at the hardware page ------------------------------------------
\* The only requests are those of one HardwareInventoryPage, whose user is a
\* member of UserProjects; the handlers run them as above.  The user fills in
\* the form while no request is being served, and may submit it again as soon
\* as the page no longer waits for an answer.
UserProjects == {"p1", "p2"}
Quiet == sent = 0 /\ \A r \in Requests : req[r].pc = "idle"

PageNext ==
    \/ LoadData /\ UNCHANGED notPageVars
    \/ \E hardware \in hardwareSets, isCheckout \in BOOLEAN :
          Quiet /\ OpenForm(hardware, isCheckout) /\ UNCHANGED notPageVars
    \/ \E p \in UserProjects \cup {""} :
          Quiet /\ SetSelectedProject(p) /\ UNCHANGED notPageVars
    \/ \E text \in QuantityTexts :
          Quiet /\ SetQuantity(text) /\ UNCHANGED notPageVars
    \/ calls < MaxPageCalls /\ HandleCheckout /\ UNCHANGED notPageVars
    \/ calls < MaxPageCalls /\ HandleCheckin /\ UNCHANGED notPageVars
    \/ HandleResponse /\ UNCHANGED notPageVars
    \/ RequestTimeout /\ UNCHANGED notPageVars
    \/ \E r \in Requests : CheckOutUpdateHw(r) /\ UNCHANGED otherVars
    \/ \E r \in Requests : CheckOutPush(r) /\ UNCHANGED otherVars
    \/ \E r \in Requests : CheckOutCommit(r) /\ UNCHANGED otherVars
    \/ \E r \in Requests : CheckInUpdateRecord(r) /\ UNCHANGED otherVars
    \/ \E r \in Requests : CheckInPull(r) /\ UNCHANGED otherVars
    \/ \E r \in Requests : CheckInCommit(r) /\ UNCHANGED otherVars

PageSpec == Init /\ [][PageNext]_vars

\* ---- one client calling the API, one call after the other --------------------
\* The hardware set "Arduino Uno" of the example document is hw1, created with
\* its total_capacity; project A is p1 and project B is p2.  The client waits
\* for each answer before its next call and keeps what it was answered.
ScenarioCapacity == 50
ScenarioCalls == 4
ScenarioQuantities == {5, 10, 20}
ScenarioHw == "hw1"
ScenarioHandler == 1

ScenarioInit ==
    /\ hardwareDB = [h \in HwNames |-> NewHardware(ScenarioCapacity)]
    /\ projectsDB = [p \in ProjectIds |-> <<>>]
    /\ req = [r \in Requests |-> Idle]
    /\ response = [r \in Requests |-> NoResponse]
    /\ calls = 0
    /\ OtherInit

\* When this step ends the call, the client notes the call, its answer and
\* the documents stored at that moment.
ScenarioLog(op, p, h, q) ==
    history' = IF req'[ScenarioHandler].pc = "idle"
               THEN Append(history,
                           [op |-> op, project_id |-> p, hw_name |-> h,
                            quantity |-> q,
                            response |-> response'[ScenarioHandler],
                            hardwareDB |-> hardwareDB',
                            projectsDB |-> projectsDB'])
               ELSE history

\* The transaction that handler r has open runs its next statement.
HandlerStep(r) ==
    \/ CheckOutUpdateHw(r)
    \/ CheckOutPush(r)
    \/ CheckOutCommit(r)
    \/ CheckInUpdateRecord(r)
    \/ CheckInPull(r)
    \/ CheckInCommit(r)

ScenarioNext ==
    \/ \E p \in ProjectIds, q \in ScenarioQuantities :
          /\ calls < ScenarioCalls
          /\ CheckOutFind(ScenarioHandler, p, ScenarioHw, q)
          /\ ScenarioLog("check_out", p, ScenarioHw, q)
          /\ UNCHANGED <<pageVars, reading, adminVars, authVars>>
    \/ \E p \in ProjectIds, q \in ScenarioQuantities :
          /\ calls < ScenarioCalls
          /\ CheckInUpdateHw(ScenarioHandler, p, ScenarioHw, q)
          /\ ScenarioLog("check_in", p, ScenarioHw, q)
          /\ UNCHANGED <<pageVars, reading, adminVars, authVars>>
    \/ /\ HandlerStep(ScenarioHandler)
       /\ ScenarioLog(req[ScenarioHandler].op, req[ScenarioHandler].project_id,
                      req[ScenarioHandler].hw_name, req[ScenarioHandler].quantity)
       /\ UNCHANGED <<pageVars, reading, adminVars, authVars>>

ScenarioSpec == ScenarioInit /\ [][ScenarioNext]_vars

\* ---- GET /get_hardware_availability/:hw_name ---------------------------------
\* A mutant of AvailabilityBody: the counters are those of the set as created.
AvailabilityAsCreated(h, hardware) ==
    [success |-> TRUE, hw_name |-> h, total_capacity |-> hardware.total_capacity,
     available |-> hardware.total_capacity, checked_out |-> 0]

\* Response (200).
AvailabilityBody(h, hardware) ==
    [success |-> TRUE, hw_name |-> h, total_capacity |-> hardware.total_capacity,
     available |-> hardware.available, checked_out |-> hardware.checked_out]

\* 404 Not Found - Hardware set doesn't exist.
NotFoundBody(h) == [NoReading EXCEPT !.hw_name = h]

\* getHardwareAvailability(hwName): the handler reads the stored document,
\* outside any transaction, and the service returns the body.
GetHardwareAvailability(h) ==
    /\ reading' = IF h \in DOMAIN hardwareDB THEN AvailabilityBody(h, hardwareDB[h])
                  ELSE NotFoundBody(h)
    /\ UNCHANGED <<serverVars, pageVars>>

\* Requests of any client, with reads of the availability between their
\* steps; history lists the calls that have committed.
MaxReadCalls == 2

ReadLog(r) ==
    history' = Append(history, [op |-> req[r].op, hw_name |-> req[r].hw_name,
                                quantity |-> req[r].quantity])

ReadNext ==
    \/ \E h \in HwInputs : GetHardwareAvailability(h) /\ UNCHANGED <<history, adminVars, authVars>>
    \/ \E r \in Requests, p \in ProjectInputs, h \in HwInputs, q \in Quantities :
          calls < MaxReadCalls /\ CheckOutFind(r, p, h, q) /\ UNCHANGED otherVars
    \/ \E r \in Requests : CheckOutUpdateHw(r) /\ UNCHANGED otherVars
    \/ \E r \in Requests : CheckOutPush(r) /\ UNCHANGED otherVars
    \/ \E r \in Requests :
          CheckOutCommit(r) /\ ReadLog(r) /\ UNCHANGED <<pageVars, reading, adminVars, authVars>>
    \/ \E r \in Requests, p \in ProjectInputs, h \in HwInputs, q \in Quantities :
          calls < MaxReadCalls /\ CheckInUpdateHw(r, p, h, q) /\ UNCHANGED otherVars
    \/ \E r \in Requests : CheckInUpdateRecord(r) /\ UNCHANGED otherVars
    \/ \E r \in Requests : CheckInPull(r) /\ UNCHANGED otherVars
    \/ \E r \in Requests :
          CheckInCommit(r) /\ ReadLog(r) /\ UNCHANGED <<pageVars, reading, adminVars, authVars>>

ReadSpec == Init /\ [][ReadNext]_vars

\* ---- the inventory from its creation -----------------------------------------
\* hardwareDB starts empty; hardware sets are created, by any number of
\* requests and with any name, while check-outs, check-ins and availability
\* reads are served; the check-outs and check-ins are those of one project.
MaxCreateCalls == 2
CreateProject == "p1"

CreateInit ==
    /\ hardwareDB = [h \in {} |-> NullHardware]
    /\ projectsDB = [p \in ProjectIds |-> <<>>]
    /\ req = [r \in Requests |-> Idle]
    /\ response = [r \in Requests |-> NoResponse]
    /\ calls = 0
    /\ OtherInit

CreateNext ==
    \/ \E h \in HwNames, cap \in 1..Capacity : CreateHardwareSet(h, cap)
    \/ \E h \in HwInputs :
          GetHardwareAvailability(h) /\ UNCHANGED <<history, adminVars, authVars>>
    \/ \E r \in Requests, h \in HwInputs, q \in Quantities :
          calls < MaxCreateCalls /\ CheckOutFind(r, CreateProject, h, q) /\ UNCHANGED otherVars
    \/ \E r \in Requests : CheckOutUpdateHw(r) /\ UNCHANGED otherVars
    \/ \E r \in Requests : CheckOutPush(r) /\ UNCHANGED otherVars
    \/ \E r \in Requests : CheckOutCommit(r) /\ UNCHANGED otherVars
    \/ \E r \in Requests, h \in HwInputs, q \in Quantities :
          calls < MaxCreateCalls /\ CheckInUpdateHw(r, CreateProject, h, q) /\ UNCHANGED otherVars
    \/ \E r \in Requests : CheckInUpdateRecord(r) /\ UNCHANGED otherVars
    \/ \E r \in Requests : CheckInPull(r) /\ UNCHANGED otherVars
    \/ \E r \in Requests : CheckInCommit(r) /\ UNCHANGED otherVars

CreateSpec == CreateInit /\ [][CreateNext]_vars

\* ---- requests of users, members of a project or not -----------------------------
\* Every request is made by a logged-in user for one of the projects; users
\* join projects between the steps of the handlers.
MaxMemberCalls == 2

MemberNext ==
    \/ \E u \in Usernames, p \in ProjectIds : JoinProject(u, p)
    \/ \E r \in Requests, u \in Usernames, p \in ProjectIds, h \in HwInputs,
          q \in Quantities :
          calls < MaxMemberCalls /\ CheckOutRoute(r, u, p, h, q)
    \/ \E r \in Requests, u \in Usernames, p \in ProjectIds, h \in HwInputs,
          q \in Quantities :
          calls < MaxMemberCalls /\ CheckInRoute(r, u, p, h, q)
    \/ \E r \in Requests : CheckOutUpdateHw(r) /\ UNCHANGED otherVars
    \/ \E r \in Requests : CheckOutPush(r) /\ UNCHANGED otherVars
    \/ \E r \in Requests : CheckOutCommit(r) /\ UNCHANGED otherVars
    \/ \E r \in Requests : CheckInUpdateRecord(r) /\ UNCHANGED otherVars
    \/ \E r \in Requests : CheckInPull(r) /\ UNCHANGED otherVars
    \/ \E r \in Requests : CheckInCommit(r) /\ UNCHANGED otherVars

MemberSpec == Init /\ [][MemberNext]_vars

\* ---- one user at the login page and the portal ------------------------------------
\* The browser opens the application at any path, with or without a username
\* left in localStorage by an earlier visit; the user fills in and submits the
\* login form, moves between the pages, reloads, and logs out from the portal.
\* The backend answers login, register and logout in any of the ways the
\* services can resolve to.
AuthSpecInit ==
    /\ ServerInit
    /\ ClientInit
    /\ AdminInit
    /\ isAuthenticated = FALSE
    /\ username = ""
    /\ mounted = FALSE
    /\ localStorage \in {NoItem} \cup Usernames
    /\ location \in Paths
    /\ loginPage = LoginPageInit
    /\ portal = PortalInit

AuthNext ==
    \/ Mount
    \/ Redirect
    \/ \E path \in DOMAIN ProtectedPages : GoTo(path)
    \/ \E path \in Paths : Reload(path)
    \/ \E u \in Usernames \cup {""} : SetUsername(u)
    \/ \E text \in PasswordTexts : SetPassword(text)
    \/ \E text \in PasswordTexts : SetConfirmPassword(text)
    \/ ToggleMode
    \/ HandleSubmit
    \/ \E result \in LoginResults : LoginResolves(result)
    \/ \E result \in RegisterResults : RegisterResolves(result)
    \/ portal.clicks < MaxLogouts /\ PortalHandleLogout
    \/ \E result \in LogoutResults : LogoutResolves(result)

AuthSpec == AuthSpecInit /\ [][AuthNext]_vars

\* The call of logout() that handleLogout awaits settles: the service resolves
\* on an answer, on an error and, at the latest, on the 10 s timeout of axios.
AuthLiveSpec ==
    /\ AuthSpecInit
    /\ [][AuthNext]_vars
    /\ WF_vars(\E result \in LogoutResults : LogoutResolves(result))

\* ---- what a call does when nothing runs beside it ------------------------
\* The outcome of one POST /check_out run alone on the stored documents.
SeqCheckOut(p, h, q) ==
    IF h \notin HwNames
    THEN [hardwareDB |-> hardwareDB, projectsDB |-> projectsDB,
          response |-> Failure(NullDeref)]
    ELSE IF InsufficientAvailable(hardwareDB[h], q)
    THEN [hardwareDB |-> hardwareDB, projectsDB |-> projectsDB,
          response |-> Failure(Insufficient)]
    ELSE [hardwareDB |-> [hardwareDB EXCEPT ![h] = IncHardware(@, q)],
          projectsDB |-> IF p \in ProjectIds
                           THEN [projectsDB EXCEPT ![p] = PushCheckout(@, h, q)]
                           ELSE projectsDB,
          response |-> Success(IncHardware(hardwareDB[h], q).available)]

\* The outcome of one POST /check_in run alone on the stored documents.
SeqCheckIn(p, h, q) ==
    [hardwareDB |-> IF h \in HwNames
                      THEN [hardwareDB EXCEPT ![h] = IncHardware(@, -q)]
                      ELSE hardwareDB,
     projectsDB |-> IF p \in ProjectIds /\ HasCheckout(projectsDB[p], h)
                      THEN [projectsDB EXCEPT
                              ![p] = PullNonPositive(DecCheckout(@, h, q))]
                      ELSE projectsDB,
     response |-> Success(IF h \in HwNames
                            THEN IncHardware(hardwareDB[h], -q).available
                            ELSE NullHardware.available)]

\* This step is handler r returning from a call it had already begun.
Returns(r) == req[r].pc # "idle" /\ req'[r].pc = "idle"

\* This step is handler r committing its transaction.
Commits(r) == req[r].pc \in {"co_commit", "ci_commit"} /\ req'[r].pc = "idle"

\* The units of hw that the stored records of all projects add up to.
LedgerTotal(hw) ==
    LET RECURSIVE Sum(_)
        Sum(ps) == IF ps = {} THEN 0
                   ELSE LET p == CHOOSE x \in ps : TRUE
                        IN Held(projectsDB[p], hw) + Sum(ps \ {p})
    IN Sum(ProjectIds)

\* ---- C1 ------------------------------------------------------------------
\* C1: for every hardware set, in every reachable state,
\* 0 <= checked_out <= total_capacity and 0 <= available <= total_capacity.
C1_CounterBounds ==
    \A h \in HwNames :
        /\ 0 <= hardwareDB[h].checked_out
        /\ hardwareDB[h].checked_out <= hardwareDB[h].total_capacity
        /\ 0 <= hardwareDB[h].available
        /\ hardwareDB[h].available <= hardwareDB[h].total_capacity

\* ---- C2 ------------------------------------------------------------------
RaceDone == \A r \in Requests : req[r].pc = "idle" /\ response[r] # NoResponse
RaceK == Capacity - Held(projectsDB[RaceHolder], RaceHw)
RaceSucceeded == {r \in Requests : response[r].success}
RaceRefused == {r \in Requests : response[r] = Failure(Insufficient)}

\* C2: of N concurrent check-outs of one unit of a hardware set with
\* K < N units available, exactly K succeed, the other N - K fail with
\* "Insufficient hardware available", and checked_out ends at total_capacity.
C2_ExactlyKSucceed ==
    RaceDone =>
        /\ Cardinality(RaceSucceeded) = RaceK
        /\ Cardinality(RaceRefused) = MaxReq - RaceK
        /\ hardwareDB[RaceHw].checked_out = hardwareDB[RaceHw].total_capacity

\* ---- C3 ------------------------------------------------------------------
\* C3: available + checked_out = total_capacity holds of every stored
\* hardware document and of the document as every open transaction sees it.
C3_CountersConsistent ==
    /\ \A h \in HwNames :
          hardwareDB[h].available + hardwareDB[h].checked_out
              = hardwareDB[h].total_capacity
    /\ \A r \in Requests :
          req[r].hardware.available + req[r].hardware.checked_out
              = req[r].hardware.total_capacity

\* A call has committed and has left units checked out.
C3_Witness ==
    /\ \E r \in Requests : response[r].success
    /\ \E h \in HwNames : hardwareDB[h].checked_out > 0

\* ---- C4 ------------------------------------------------------------------
\* C4: every call is one atomic unit: the answer it returns and the documents
\* it leaves are those of the same call run alone at the step it returns.
C4_Atomic ==
    [][/\ \A r \in Requests :
            Returns(r) =>
                LET t == req[r]
                    s == IF t.op = "check_out"
                         THEN SeqCheckOut(t.project_id, t.hw_name, t.quantity)
                         ELSE SeqCheckIn(t.project_id, t.hw_name, t.quantity)
                IN /\ response'[r] = s.response
                   /\ hardwareDB' = s.hardwareDB
                   /\ projectsDB' = s.projectsDB
       /\ \A r \in Requests, p \in ProjectInputs, h \in HwInputs, q \in Quantities :
            /\ (CheckOutFind(r, p, h, q) /\ req'[r].pc = "idle")
                  => response'[r] = SeqCheckOut(p, h, q).response
            /\ (CheckInUpdateHw(r, p, h, q) /\ req'[r].pc = "idle")
                  => response'[r] = SeqCheckIn(p, h, q).response
      ]_vars

\* Apart from the answer "WriteConflict", which leaves the documents as they
\* were, every call is such an atomic unit.
C4_AtomicApartFromConflicts ==
    [][/\ \A r \in Requests :
            Returns(r) =>
                IF response'[r] = Failure(WriteConflict)
                THEN UNCHANGED <<hardwareDB, projectsDB>>
                ELSE LET t == req[r]
                         s == IF t.op = "check_out"
                              THEN SeqCheckOut(t.project_id, t.hw_name, t.quantity)
                              ELSE SeqCheckIn(t.project_id, t.hw_name, t.quantity)
                     IN /\ response'[r] = s.response
                        /\ hardwareDB' = s.hardwareDB
                        /\ projectsDB' = s.projectsDB
       /\ \A r \in Requests, p \in ProjectInputs, h \in HwInputs, q \in Quantities :
            /\ (CheckOutFind(r, p, h, q) /\ req'[r].pc = "idle")
                  => response'[r] = SeqCheckOut(p, h, q).response
            /\ (/\ CheckInUpdateHw(r, p, h, q)
                /\ req'[r].pc = "idle"
                /\ response'[r] # Failure(WriteConflict))
                  => response'[r] = SeqCheckIn(p, h, q).response
      ]_vars

\* ---- C5 ------------------------------------------------------------------
\* C5: in every stored state, checked_out of a hardware set equals the sum of
\* the quantities of all projects' checkout records for it.
C5_CounterMatchesLedger ==
    \A h \in HwNames : hardwareDB[h].checked_out = LedgerTotal(h)

\* ---- C6 ------------------------------------------------------------------
\* C6: a check-out asking for more than total_capacity - checked_out returns
\* "Insufficient hardware available" at once and changes no document.
C6_InsufficientRejected ==
    [][\A r \in Requests, p \in ProjectInputs, h \in HwNames, q \in Quantities :
          (/\ CheckOutFind(r, p, h, q)
           /\ q > hardwareDB[h].total_capacity - hardwareDB[h].checked_out)
          => /\ response'[r] = Failure(Insufficient)
             /\ req'[r].pc = "idle"
             /\ UNCHANGED <<hardwareDB, projectsDB>>
      ]_vars

\* A check-out has been refused for insufficient availability.
C6_Witness ==
    \E r \in Requests :
        /\ response[r] = Failure(Insufficient)
        /\ \E h \in HwNames : hardwareDB[h].available < MaxQty

\* ---- C7 ------------------------------------------------------------------
\* C7: a check-in of more than the project holds of the hardware set (or with
\* no record at all) fails and changes nothing.
C7_OverReleaseRejected ==
    [][\A r \in Requests :
          (/\ Commits(r)
           /\ req[r].op = "check_in"
           /\ req[r].hw_name \in HwNames
           /\ req[r].project_id \in ProjectIds
           /\ req[r].quantity > Held(projectsDB[req[r].project_id], req[r].hw_name))
          => /\ ~response'[r].success
             /\ UNCHANGED <<hardwareDB, projectsDB>>
      ]_vars

\* ---- C8 ------------------------------------------------------------------
\* C8: a project has at most one checkout record per hardware set.
C8_OneRecordPerType ==
    \A p \in ProjectIds, h \in HwNames : NumRecords(projectsDB[p], h) <= 1

\* ---- C9 ------------------------------------------------------------------
\* C9: a successful check-out of q adds q to checked_out, creates the
\* project's record with quantity q or adds q to the existing record, and
\* returns the new available = total_capacity - checked_out.
C9_ReserveEffect ==
    [][\A r \in Requests :
          (/\ Commits(r)
           /\ req[r].op = "check_out"
           /\ req[r].project_id \in ProjectIds)
          => LET p == req[r].project_id
                 h == req[r].hw_name
                 q == req[r].quantity
             IN /\ response'[r].success
                /\ hardwareDB'[h].checked_out = hardwareDB[h].checked_out + q
                /\ response'[r].available
                      = hardwareDB'[h].total_capacity - hardwareDB'[h].checked_out
                /\ Held(projectsDB'[p], h) = Held(projectsDB[p], h) + q
                /\ NumRecords(projectsDB'[p], h) = 1
      ]_vars

\* ---- C10 -----------------------------------------------------------------
\* C10: a successful check-in of q <= held takes q off checked_out and off the
\* project's held quantity and returns the new available; q = held removes
\* the record, q < held leaves it with held - q.
C10_ReleaseEffect ==
    [][\A r \in Requests :
          (/\ Commits(r)
           /\ req[r].op = "check_in"
           /\ req[r].hw_name \in HwNames
           /\ req[r].project_id \in ProjectIds
           /\ req[r].quantity <= Held(projectsDB[req[r].project_id], req[r].hw_name))
          => LET p == req[r].project_id
                 h == req[r].hw_name
                 q == req[r].quantity
                 held == Held(projectsDB[p], h)
             IN /\ response'[r].success
                /\ hardwareDB'[h].checked_out = hardwareDB[h].checked_out - q
                /\ response'[r].available
                      = hardwareDB'[h].total_capacity - hardwareDB'[h].checked_out
                /\ Held(projectsDB'[p], h) = held - q
                /\ (q = held) => NumRecords(projectsDB'[p], h) = 0
                /\ (q < held) => NumRecords(projectsDB'[p], h) >= 1
      ]_vars

DenotesPositiveInteger(text) ==
    /\ text # <<>>
    /\ DigitPrefix(text) = text
    /\ DecimalValue(text) >= 1

\* C12: a check-out or check-in whose quantity is zero, negative or not an
\* integer is rejected with an error before any request reaches storage; a
\* quantity that is not an integer is not truncated to one.
C12_InvalidQuantityRejected ==
    [][((HandleCheckout \/ HandleCheckin) /\ ~DenotesPositiveInteger(quantity))
          => /\ error' # ""
             /\ UNCHANGED <<serverVars, sent>>
      ]_vars

\* ---- C13 -----------------------------------------------------------------
\* C13: a check-out or check-in that names a hardware set or a project with
\* no document fails and leaves every counter and every record unchanged.
C13_NotFoundRejected ==
    [][\A r \in Requests :
          (/\ Commits(r)
           /\ (req[r].hw_name \notin HwNames \/ req[r].project_id \notin ProjectIds))
          => /\ ~response'[r].success
             /\ UNCHANGED <<hardwareDB, projectsDB>>
      ]_vars

\* ---- C14 -----------------------------------------------------------------
\* The documents stored before the i-th call of the client.
StoredBefore(i) ==
    IF i = 1
    THEN [hardwareDB |-> [h \in HwNames |-> NewHardware(ScenarioCapacity)],
          projectsDB |-> [p \in ProjectIds |-> <<>>]]
    ELSE [hardwareDB |-> history[i - 1].hardwareDB,
          projectsDB |-> history[i - 1].projectsDB]

\* C14: whenever a check-out of q of h for p succeeds and the same client's
\* next call is the check-in of q of h for p, that check-in succeeds and
\* available and checked_out of h and the quantity p holds of h are back at
\* their values before the check-out.
C14_RoundTrip ==
    \A i \in 1..(Len(history) - 1) :
        LET reserve == history[i]
            release == history[i + 1]
            before == StoredBefore(i)
            h == reserve.hw_name
            p == reserve.project_id
        IN (/\ reserve.op = "check_out"
            /\ reserve.response.success
            /\ release.op = "check_in"
            /\ release.project_id = p
            /\ release.hw_name = h
            /\ release.quantity = reserve.quantity)
           => /\ release.response.success
              /\ release.hardwareDB[h].available = before.hardwareDB[h].available
              /\ release.hardwareDB[h].checked_out = before.hardwareDB[h].checked_out
              /\ Held(release.projectsDB[p], h) = Held(before.projectsDB[p], h)

\* ---- C15 -----------------------------------------------------------------
\* C15: a check-out of exactly the available amount succeeds and leaves
\* available = 0 (the guard is requested > available, not >=); while
\* available is 0 every check-out of 1 or more is refused with "Insufficient
\* hardware available" and changes nothing.
C15_ExactRemainder ==
    \A i \in 1..Len(history) :
        LET call == history[i]
            h == call.hw_name
            before == StoredBefore(i)
            available == before.hardwareDB[h].available
        IN call.op = "check_out"
           => /\ (call.quantity = available)
                    => /\ call.response = Success(0)
                       /\ call.hardwareDB[h].available = 0
              /\ (available = 0)
                    => /\ call.response = Failure(Insufficient)
                       /\ call.hardwareDB = before.hardwareDB
                       /\ call.projectsDB = before.projectsDB

\* A check-out took exactly what was left, and the next one was refused.
C15_Witness ==
    \E i \in 1..(Len(history) - 1) :
        /\ history[i].op = "check_out"
        /\ history[i].quantity = StoredBefore(i).hardwareDB[history[i].hw_name].available
        /\ history[i].response = Success(0)
        /\ history[i + 1].op = "check_out"
        /\ history[i + 1].response = Failure(Insufficient)

\* ---- C16 -----------------------------------------------------------------
\* The calls the client has made so far, without their answers.
ScenarioCallsMade ==
    [i \in 1..Len(history) |->
        <<history[i].op, history[i].project_id, history[i].hw_name,
          history[i].quantity>>]

\* C16: with Arduino Uno of capacity 50 and nothing checked out, A reserves 5
\* (available 45), B reserves 10 (35), A releases 5 (40, A's record removed),
\* then B releasing 20 fails, available stays 40 and B's record stays at 10.
C16_Scenario ==
    ScenarioCallsMade = << <<"check_out", "p1", ScenarioHw, 5>>,
                           <<"check_out", "p2", ScenarioHw, 10>>,
                           <<"check_in", "p1", ScenarioHw, 5>>,
                           <<"check_in", "p2", ScenarioHw, 20>> >>
    => /\ history[1].response = Success(45)
       /\ history[2].response = Success(35)
       /\ history[3].response = Success(40)
       /\ NumRecords(history[3].projectsDB["p1"], ScenarioHw) = 0
       /\ ~history[4].response.success
       /\ history[4].hardwareDB[ScenarioHw].available = 40
       /\ Held(history[4].projectsDB["p2"], ScenarioHw) = 10

\* ---- C17 -----------------------------------------------------------------
\* The caller of the call that handler r is serving has given up waiting.
Abandoned(r) == req[r].pc # "idle" /\ sent # r

\* C17: a check-out or check-in whose caller gave up on its request timeout
\* never leaves a partial change: when it returns, the stored documents are
\* either untouched or changed by the whole of the call, counter and record
\* together; until then it changes nothing.
C17_TimeoutLeavesNoPartialChange ==
    [][\A r \in Requests :
          Abandoned(r) =>
              LET t == req[r]
                  s == IF t.op = "check_out"
                       THEN SeqCheckOut(t.project_id, t.hw_name, t.quantity)
                       ELSE SeqCheckIn(t.project_id, t.hw_name, t.quantity)
              IN IF Returns(r)
                 THEN \/ UNCHANGED <<hardwareDB, projectsDB>>
                      \/ /\ response'[r].success
                         /\ hardwareDB' = s.hardwareDB
                         /\ projectsDB' = s.projectsDB
                 ELSE \/ UNCHANGED <<hardwareDB, projectsDB>>
                      \/ \E o \in Requests \ {r} : Commits(o)
      ]_vars

\* The only call made so far was given up by the page, which shows the
\* connection failure, and has nevertheless committed its check-out.
C17_Witness ==
    /\ calls = 1
    /\ sent = 0
    /\ error = FailedToConnect
    /\ \E r \in Requests : req[r].pc = "idle" /\ response[r].success
    /\ \E h \in HwNames : hardwareDB[h].checked_out > 0
    /\ \E p \in ProjectIds : projectsDB[p] # <<>>

\* ---- C18 -----------------------------------------------------------------
RECURSIVE NetCheckedOut(_, _)
\* The units of hw out after the committed calls: what the check-outs took
\* less what the check-ins gave back.
NetCheckedOut(committed, hw) ==
    IF committed = <<>> THEN 0
    ELSE NetCheckedOut(Tail(committed), hw)
         + (IF Head(committed).hw_name # hw THEN 0
            ELSE IF Head(committed).op = "check_out" THEN Head(committed).quantity
            ELSE -Head(committed).quantity)

\* A check-out or check-in of hw is being served.
InFlight(hw) == \E r \in Requests : req[r].pc # "idle" /\ req[r].hw_name = hw

\* C18: getAvailability changes no state, and with no check-out or check-in
\* of the hardware set in flight it returns the total_capacity, available and
\* checked_out that the committed calls add up to, with
\* available + checked_out = total_capacity.
C18_ReadReflectsCommitted ==
    [][\A h \in HwInputs :
          GetHardwareAvailability(h)
          => /\ UNCHANGED <<hardwareDB, projectsDB, req, response, calls>>
             /\ (h \in HwNames /\ ~InFlight(h))
                   => /\ reading'.success
                      /\ reading'.hw_name = h
                      /\ reading'.total_capacity = Capacity
                      /\ reading'.checked_out = NetCheckedOut(history, h)
                      /\ reading'.available + reading'.checked_out
                            = reading'.total_capacity
      ]_vars

\* With nothing in flight, the availability read shows units checked out.
C18_Witness ==
    /\ reading.success
    /\ reading.checked_out > 0
    /\ reading.checked_out = hardwareDB[reading.hw_name].checked_out
    /\ \A r \in Requests : req[r].pc = "idle"

\* ---- C19 -----------------------------------------------------------------
\* C19: no check-out or check-in waits for availability: a handler with a call
\* in hand can always run its next statement; a check-out that finds too
\* little available is answered with the failure in that very step; and its
\* answer stays a failure, whatever is checked in later, until the handler
\* is given a new call.
C19_NoWaiting ==
    /\ [](\A r \in Requests : req[r].pc # "idle" => ENABLED HandlerStep(r))
    /\ [][\A r \in Requests, p \in ProjectInputs, h \in HwNames, q \in Quantities :
            (CheckOutFind(r, p, h, q) /\ hardwareDB[h].available < q)
            => /\ req'[r].pc = "idle"
               /\ response'[r] = Failure(Insufficient)
        ]_vars
    /\ [][\A r \in Requests :
            (/\ req[r].pc = "idle"
             /\ response[r] = Failure(Insufficient)
             /\ calls' = calls)
            => /\ req'[r].pc = "idle"
               /\ response'[r] = response[r]
        ]_vars

\* A check-out was refused, a later check-in has made every unit available
\* again, and the refused call is still refused.
C19_Witness ==
    /\ calls = MaxCalls
    /\ \A r \in Requests : req[r].pc = "idle"
    /\ \E r \in Requests : response[r] = Failure(Insufficient)
    /\ \E r \in Requests : response[r] = Success(Capacity)
    /\ \A h \in HwNames : hardwareDB[h].available = Capacity

\* ---- C20 -----------------------------------------------------------------
\* C20: a check-out or check-in of one hardware set is never failed (nor
\* blocked or delayed) because of a call on a different hardware set: when a
\* call is thrown out by a conflict, the transaction it conflicts with is one
\* on the same hardware set.
C20_NoCrossTypeInterference ==
    [][\A r \in Requests :
          (Returns(r) /\ response'[r] = Failure(WriteConflict))
          => \/ req[r].staleHw
             \/ \E o \in Requests \ {r} :
                   req[o].pc # "idle" /\ req[o].hw_name = req[r].hw_name
      ]_vars

\* ---- C21 -----------------------------------------------------------------
\* C21: a hardware set is created with checked_out = 0 and
\* available = total_capacity; creating a set whose name exists fails and
\* leaves the stored set as it is; and no step of a check-out, a check-in or
\* an availability read changes the total_capacity of a set, or removes it.
C21_CreatedOnceCapacityFixed ==
    /\ [][\A h \in HwNames, cap \in 1..Capacity :
            CreateHardwareSet(h, cap)
            => IF h \in DOMAIN hardwareDB
               THEN /\ ~created'.success
                    /\ hardwareDB' = hardwareDB
               ELSE /\ created'.success
                    /\ hardwareDB'[h].total_capacity = cap
                    /\ hardwareDB'[h].available = cap
                    /\ hardwareDB'[h].checked_out = 0
                    /\ \A x \in DOMAIN hardwareDB : hardwareDB'[x] = hardwareDB[x]
        ]_vars
    /\ [][\A h \in DOMAIN hardwareDB :
            /\ h \in DOMAIN hardwareDB'
            /\ hardwareDB'[h].total_capacity = hardwareDB[h].total_capacity
        ]_vars

\* A second creation of a set was refused while units of it were checked out,
\* and the set still has them checked out.
C21_Witness ==
    /\ created = AlreadyExistsBody(created.hw_name)
    /\ created.hw_name \in DOMAIN hardwareDB
    /\ hardwareDB[created.hw_name].checked_out > 0

OtherRecords(checkouts, hw) ==
    SelectSeq(checkouts, LAMBDA rec : rec.hw_name # hw)

C24_CheckoutGuard ==
    [][HandleCheckout =>
          LET qty == ParseInt(quantity) IN
          IF /\ selectedProject # ""
             /\ ~qty.nan
             /\ qty.value >= 1
             /\ qty.value <= selectedHardware.available
          THEN /\ sent' \in Requests
               /\ calls' = calls + 1
               /\ CheckOutFind(sent', selectedProject, selectedHardware.hw_name,
                               qty.value)
          ELSE /\ error' # ""
               /\ sent' = 0
               /\ UNCHANGED serverVars
      ]_vars

\* After a request had been sent and answered, the page itself has refused a
\* quantity larger than the available value it had loaded.
C24_Witness ==
    /\ calls >= 1
    /\ sent = 0
    /\ isCheckoutMode
    /\ error = Insufficient
    /\ \A r \in Requests : req[r].pc = "idle" /\ response[r] # Failure(Insufficient)
    /\ ParseInt(quantity).value > selectedHardware.available

\* ---- C25 -----------------------------------------------------------------
\* The quantity input accepts the value: min="1" and, in check-in mode,
\* max={selectedHardware.checked_out}.
WithinCheckinInputRange(q) == 1 <= q /\ q <= selectedHardware.checked_out

\* C25: handleCheckin sends a check-in request only for a quantity that does
\* not exceed what the selected project has checked out of the selected
\* hardware set, for every quantity that the quantity input lets through.
C25_CheckinWithinHeld ==
    [][(/\ HandleCheckin
        /\ sent' # 0
        /\ WithinCheckinInputRange(ParseInt(quantity).value))
          => ParseInt(quantity).value
                <= Held(projectsDB[selectedProject], selectedHardware.hw_name)
      ]_vars

\* ---- C26 -----------------------------------------------------------------
\* C26: the call the page awaits always resolves, never rejects: to the
\* server's answer once the handler has answered, to "Failed to connect to
\* server" otherwise.  Whenever the result's success is not true the page
\* shows the result's error and keeps the form as it is; it clears the form
\* and reloads the hardware list only when success is true.
C26_ResultShown ==
    /\ [](sent # 0 => ENABLED (HandleResponse \/ RequestTimeout))
    /\ [][(sent # 0 /\ sent' = 0) =>
            LET result == IF req[sent].pc = "idle" THEN response[sent]
                          ELSE Failure(FailedToConnect)
            IN IF result.success
               THEN /\ selectedHardware' = NullHardwareSet
                    /\ quantity' = <<>>
                    /\ selectedProject' = ""
                    /\ loading'
               ELSE /\ error' = result.error
                    /\ error' # ""
                    /\ UNCHANGED <<selectedHardware, quantity, selectedProject,
                                   isCheckoutMode, loading, hardwareSets>>
        ]_vars
    /\ [][(selectedHardware # NullHardwareSet /\ selectedHardware' = NullHardwareSet)
            => (sent # 0 /\ req[sent].pc = "idle" /\ response[sent].success)
        ]_vars

\* The server has refused the page's request, and the page shows the server's
\* error over the form, which is still filled in.
C26_Witness ==
    /\ sent = 0
    /\ selectedHardware # NullHardwareSet
    /\ quantity # <<>>
    /\ error \in {Insufficient, WriteConflict}
    /\ \E r \in Requests : req[r].pc = "idle" /\ response[r] = Failure(error)

\* ---- C27 -----------------------------------------------------------------
\* C27: once App is mounted, after any calls of handleLogin and handleLogout,
\* isAuthenticated is true exactly when localStorage holds a username and the
\* username state equals it; the portal, the projects page and the hardware
\* page are on the screen only while isAuthenticated is true, and while it is
\* false their routes redirect to /login.
C27_AuthenticatedIffStored ==
    /\ mounted => (isAuthenticated <=> (localStorage # NoItem /\ username = localStorage))
    /\ Rendered \in {"MainPortal", "ProjectPage", "HardwareInventoryPage"}
          => isAuthenticated
    /\ ~isAuthenticated
          => \A path \in {"/portal", "/projects", "/hardware"} :
                Element(path) = NavigateTo("/login")

\* The user has logged out from the portal and has then logged in again: the
\* portal is on the screen under the stored username.
C27_Witness ==
    /\ mounted
    /\ portal.onLogoutCalls >= 1
    /\ portal.awaiting = 0
    /\ isAuthenticated
    /\ username \in Usernames
    /\ localStorage = username
    /\ Rendered = "MainPortal"

\* ---- C28 -----------------------------------------------------------------
\* C28: while App is mounted, the user becomes logged in, or a username is
\* stored, only in the step in which a login request of the login page
\* resolves with success = true, and under the username of the form; a login
\* that fails, a registration that fails or succeeds, and an auto-login that
\* fails leave the user logged out; and in registration mode handleSubmit
\* sends a request only when the password equals its confirmation and has at
\* least 8 characters.
C28_LoginOnlyOnSuccess ==
    /\ [][(mounted /\ (\/ isAuthenticated' /\ ~isAuthenticated
                       \/ localStorage' \notin {localStorage, NoItem}))
            => /\ loginPage.pc \in {"login", "autoLogin"}
               /\ \E result \in LoginResults : result.success /\ LoginResolves(result)
               /\ username' = loginPage.username
               /\ localStorage' = loginPage.username
        ]_vars
    /\ [][\A result \in LoginResults :
            (LoginResolves(result) /\ ~result.success)
            => UNCHANGED <<isAuthenticated, username, localStorage>>
        ]_vars
    /\ [][\A result \in RegisterResults :
            RegisterResolves(result)
            => UNCHANGED <<isAuthenticated, username, localStorage>>
        ]_vars
    /\ [][(HandleSubmit /\ ~loginPage.isLoginMode /\ loginPage'.pc # "idle")
            => /\ loginPage.password = loginPage.confirmPassword
               /\ Len(loginPage.password) >= MinPasswordLength
        ]_vars

\* A registration has succeeded and its auto-login is awaited: the user is
\* not logged in.
C28_Witness ==
    /\ loginPage.pc = "autoLogin"
    /\ ~loginPage.isLoginMode
    /\ loginPage.password = loginPage.confirmPassword
    /\ ~isAuthenticated
    /\ localStorage = NoItem

\* ---- C29 -----------------------------------------------------------------
\* C29: every call of the portal's handleLogout has either called onLogout
\* exactly once or still awaits logout(), and whatever logout() resolves to,
\* a pending logout leads to a state in which none is pending, the user is
\* logged out and the router is at /login.
C29_LogoutEnds ==
    /\ [](portal.onLogoutCalls + portal.awaiting = portal.clicks)
    /\ (portal.awaiting > 0)
          ~> (portal.awaiting = 0 /\ ~isAuthenticated /\ location = "/login")

\* Every logout asked for has ended the session: nothing is stored, and the
\* login page is on the screen.
C29_Witness ==
    /\ portal.clicks >= 1
    /\ portal.onLogoutCalls = portal.clicks
    /\ ~isAuthenticated
    /\ localStorage = NoItem
    /\ Rendered = "LoginPage"
====
